---------------------------- MODULE Spec2Model ----------------------------
(***************************************************************************)
(* Model of foundation/math/filter.h: the 2D reconstruction filters        *)
(* (Filter2, BoxFilter2, TriangleFilter2, GaussianFilter2, MitchellFilter2,*)
(* LanczosFilter2) and compute_normalization_factor.                       *)
(*                                                                         *)
(* Arithmetic.  The scalar type T is modelled by exact values: a rational  *)
(* [n, d] in lowest terms, or a term built from the values that are not    *)
(* rational (Pi, std::exp, std::sin).  Every operation of the source is    *)
(* performed in the order the source performs it (for instance a           *)
(* coordinate is normalised by multiplying with the stored reciprocal      *)
(* radius, not by dividing by the radius).  Rounding of a concrete         *)
(* floating-point T is not part of the model.  0/0 yields NaN and NaN      *)
(* propagates through every operation, as it does in IEEE arithmetic.      *)
(***************************************************************************)
EXTENDS Integers, Sequences, FiniteSets, TLC

VARIABLES
    ctor,       \* the arguments the filter was constructed with
    filter,     \* the fields of the constructed filter instance
    readers     \* per reader thread: the call in progress and its locals

vars == <<ctor, filter, readers>>

---------------------------------------------------------------------------
(* Bounds of the model.                                                    *)

MaxRadiusNum == 3       \* radii are k/2 for k in 1..MaxRadiusNum
MaxSampleCount == 4     \* sample_count ranges over 0..MaxSampleCount
GridDen == 4            \* evaluate is called at (i/GridDen)*radius, |i| <= GridDen

(* Default value of the sample_count parameter. *)
DefaultSampleCount == 1024

---------------------------------------------------------------------------
(* Exact rational arithmetic.                                              *)

AbsInt(a) == IF a < 0 THEN -a ELSE a

RECURSIVE GCD(_, _)
GCD(a, b) == IF b = 0 THEN a ELSE GCD(b, a % b)

Norm(n, d) ==
    LET s == IF d < 0 THEN -1 ELSE 1
        g == GCD(AbsInt(n), AbsInt(d))
    IN  [n |-> (s * n) \div g, d |-> (s * d) \div g]

Rat(n, d) == Norm(n, d)
Zero == [n |-> 0, d |-> 1]
One == [n |-> 1, d |-> 1]
Two == [n |-> 2, d |-> 1]
Four == [n |-> 4, d |-> 1]

RNeg(a) == [n |-> -a.n, d |-> a.d]
RAbs(a) == [n |-> AbsInt(a.n), d |-> a.d]
RLess(a, b) == a.n * b.d < b.n * a.d
RLeq(a, b) == a.n * b.d <= b.n * a.d

RAdd(a, b) ==
    LET g == GCD(a.d, b.d)
    IN  Norm(a.n * (b.d \div g) + b.n * (a.d \div g), (a.d \div g) * b.d)

RSub(a, b) == RAdd(a, RNeg(b))

RMul(a, b) ==
    LET g1 == GCD(AbsInt(a.n), b.d)
        g2 == GCD(AbsInt(b.n), a.d)
        h1 == IF g1 = 0 THEN 1 ELSE g1
        h2 == IF g2 = 0 THEN 1 ELSE g2
    IN  Norm((a.n \div h1) * (b.n \div h2), (a.d \div h2) * (b.d \div h1))

RInv(a) == Norm(a.d, a.n)
RDiv(a, b) == RMul(a, RInv(b))

---------------------------------------------------------------------------
(* Values of type T: rationals and terms.                                  *)

NaN == [tag |-> "nan"]
Inf == [tag |-> "inf"]

IsRat(v) == "n" \in DOMAIN v
IsPi(v) == ~IsRat(v) /\ v.tag = "pi"
IsNaN(v) == ~IsRat(v) /\ v.tag = "nan"

(* T(Pi): the value Pi; q * Pi is kept as [tag "pi", q], q # 0. *)
Pi == [tag |-> "pi", q |-> One]

PiTimes(q) == IF q = Zero THEN Zero ELSE [tag |-> "pi", q |-> q]

Neg(a) == IF IsRat(a) THEN RNeg(a) ELSE IF IsNaN(a) THEN NaN ELSE [tag |-> "neg", a |-> a]

Add(a, b) ==
    IF IsNaN(a) \/ IsNaN(b) THEN NaN
    ELSE IF IsRat(a) /\ IsRat(b) THEN RAdd(a, b)
    ELSE [tag |-> "add", l |-> a, r |-> b]

Sub(a, b) ==
    IF IsNaN(a) \/ IsNaN(b) THEN NaN
    ELSE IF IsRat(a) /\ IsRat(b) THEN RSub(a, b)
    ELSE [tag |-> "sub", l |-> a, r |-> b]

Mul(a, b) ==
    IF IsNaN(a) \/ IsNaN(b) THEN NaN
    ELSE IF IsRat(a) /\ IsRat(b) THEN RMul(a, b)
    ELSE IF IsPi(a) /\ IsRat(b) THEN PiTimes(RMul(a.q, b))
    ELSE IF IsRat(a) /\ IsPi(b) THEN PiTimes(RMul(a, b.q))
    ELSE [tag |-> "mul", l |-> a, r |-> b]

Div(a, b) ==
    IF IsNaN(a) \/ IsNaN(b) THEN NaN
    ELSE IF b = Zero THEN (IF a = Zero THEN NaN ELSE Inf)
    ELSE IF IsRat(a) /\ IsRat(b) THEN RDiv(a, b)
    ELSE IF IsPi(a) /\ IsRat(b) THEN PiTimes(RDiv(a.q, b))
    ELSE [tag |-> "div", l |-> a, r |-> b]

(* std::exp and std::sin: exact at 0, a term elsewhere. *)
StdExp(a) ==
    IF IsNaN(a) THEN NaN
    ELSE IF a = Zero THEN One
    ELSE [tag |-> "exp", a |-> a]

StdSin(a) ==
    IF IsNaN(a) THEN NaN
    ELSE IF a = Zero THEN Zero
    ELSE [tag |-> "sin", a |-> a]

---------------------------------------------------------------------------
(* Filter2: the base class.                                                *)

(* Filter2 with the reciprocal of the x radius left out. *)
Filter2NoReciprocal(xradius, yradius) ==
    [m_xradius |-> xradius,
     m_yradius |-> yradius,
     m_rcp_xradius |-> xradius,
     m_rcp_yradius |-> Div(One, yradius)]

Filter2(xradius, yradius) ==
    [m_xradius |-> xradius,
     m_yradius |-> yradius,
     m_rcp_xradius |-> Div(One, xradius),
     m_rcp_yradius |-> Div(One, yradius)]

get_xradius(f) == f.m_xradius
get_yradius(f) == f.m_yradius

(* BoxFilter2 *)

BoxFilter2(xradius, yradius) ==
    [kind |-> "box", base |-> Filter2(xradius, yradius)]

(* A box that excludes the boundary of its support. *)
BoxEvaluateOpen(f, x, y) ==
    IF RLess(RAbs(x), f.base.m_xradius) /\ RLess(RAbs(y), f.base.m_yradius)
    THEN One ELSE Zero

BoxEvaluate(f, x, y) == One

(* TriangleFilter2 *)

TriangleFilter2(xradius, yradius) ==
    [kind |-> "triangle", base |-> Filter2(xradius, yradius)]

TriangleEvaluate(f, x, y) ==
    LET nx == Mul(x, f.base.m_rcp_xradius)
        ny == Mul(y, f.base.m_rcp_yradius)
    IN  Mul(Sub(One, RAbs(nx)), Sub(One, RAbs(ny)))

(* GaussianFilter2 *)

gaussian(x, alpha) == StdExp(Mul(Mul(Neg(alpha), x), x))

GaussianFilter2(xradius, yradius, alpha) ==
    [kind |-> "gaussian", base |-> Filter2(xradius, yradius),
     m_alpha |-> alpha,
     m_shift |-> gaussian(One, alpha)]

GaussianEvaluate(f, x, y) ==
    LET nx == Mul(x, f.base.m_rcp_xradius)
        ny == Mul(y, f.base.m_rcp_yradius)
        fx == Sub(gaussian(nx, f.m_alpha), f.m_shift)
        fy == Sub(gaussian(ny, f.m_alpha), f.m_shift)
    IN  Mul(fx, fy)

(* MitchellFilter2 *)

Sixth == Rat(1, 6)
K(n) == Rat(n, 1)

(* MitchellFilter2 with a wrong c factor (42 for 48) in m_b1. *)
MitchellFilter2WrongB1(xradius, yradius, b, c) ==
    [kind |-> "mitchell", base |-> Filter2(xradius, yradius),
     m_a3 |-> Mul(Sixth, Sub(Sub(K(12), Mul(K(9), b)), Mul(K(6), c))),
     m_a2 |-> Mul(Sixth, Add(Add(K(-18), Mul(K(12), b)), Mul(K(6), c))),
     m_a0 |-> Mul(Sixth, Sub(K(6), Mul(K(2), b))),
     m_b3 |-> Mul(Sixth, Sub(Neg(b), Mul(K(6), c))),
     m_b2 |-> Mul(Sixth, Add(Mul(K(6), b), Mul(K(30), c))),
     m_b1 |-> Mul(Sixth, Sub(Mul(K(-12), b), Mul(K(42), c))),
     m_b0 |-> Mul(Sixth, Add(Mul(K(8), b), Mul(K(24), c)))]

MitchellFilter2(xradius, yradius, b, c) ==
    [kind |-> "mitchell", base |-> Filter2(xradius, yradius),
     m_a3 |-> Mul(Sixth, Sub(Sub(K(12), Mul(K(9), b)), Mul(K(6), c))),
     m_a2 |-> Mul(Sixth, Add(Add(K(-18), Mul(K(12), b)), Mul(K(6), c))),
     m_a0 |-> Mul(Sixth, Sub(K(6), Mul(K(2), b))),
     m_b3 |-> Mul(Sixth, Sub(Neg(b), Mul(K(6), c))),
     m_b2 |-> Mul(Sixth, Add(Mul(K(6), b), Mul(K(30), c))),
     m_b1 |-> Mul(Sixth, Sub(Mul(K(-12), b), Mul(K(48), c))),
     m_b0 |-> Mul(Sixth, Add(Mul(K(8), b), Mul(K(24), c)))]

(* The two cubics of MitchellFilter2::evaluate, in u = |2n|. *)
MitchellInner(f, u1) ==
    LET u2 == Mul(u1, u1)
        u3 == Mul(u2, u1)
    IN  Add(Add(Mul(f.m_a3, u3), Mul(f.m_a2, u2)), f.m_a0)

MitchellOuter(f, u1) ==
    LET u2 == Mul(u1, u1)
        u3 == Mul(u2, u1)
    IN  Add(Add(Add(Mul(f.m_b3, u3), Mul(f.m_b2, u2)), Mul(f.m_b1, u1)), f.m_b0)

(* MitchellAxis on the undoubled coordinate: u = |n| instead of |2n|. *)
MitchellAxisUndoubled(f, x, rcp) ==
    LET nx == Mul(x, rcp)
        x1 == RAbs(nx)
    IN  IF RLess(x1, One)
        THEN [branch |-> "inner", value |-> MitchellInner(f, x1)]
        ELSE [branch |-> "outer", value |-> MitchellOuter(f, x1)]

(* One axis of MitchellFilter2::evaluate: the branch taken and its value. *)
MitchellAxis(f, x, rcp) ==
    LET nx == Mul(x, rcp)
        x1 == RAbs(Add(nx, nx))
    IN  IF RLess(x1, One)
        THEN [branch |-> "inner", value |-> MitchellInner(f, x1)]
        ELSE [branch |-> "outer", value |-> MitchellOuter(f, x1)]

MitchellEvaluate(f, x, y) ==
    Mul(MitchellAxis(f, x, f.base.m_rcp_xradius).value,
        MitchellAxis(f, y, f.base.m_rcp_yradius).value)

(* LanczosFilter2 *)

LanczosFilter2(xradius, yradius, tau) ==
    [kind |-> "lanczos", base |-> Filter2(xradius, yradius),
     m_rcp_tau |-> tau]

sinc(x) == Div(StdSin(x), x)

(* lanczos without the test for theta == 0. *)
lanczosUnguarded(x, rcp_tau) ==
    LET theta == Mul(Pi, x)
    IN  Mul(sinc(Mul(theta, rcp_tau)), sinc(theta))

lanczos(x, rcp_tau) ==
    LET theta == Mul(Pi, x)
    IN  IF theta = Zero THEN One ELSE Mul(sinc(Mul(theta, rcp_tau)), sinc(theta))

LanczosEvaluate(f, x, y) ==
    LET nx == Mul(x, f.base.m_rcp_xradius)
        ny == Mul(y, f.base.m_rcp_yradius)
    IN  Mul(lanczos(nx, f.m_rcp_tau), lanczos(ny, f.m_rcp_tau))

(* The virtual call filter.evaluate(x, y). *)
evaluate(f, x, y) ==
    CASE f.kind = "box" -> BoxEvaluate(f, x, y)
      [] f.kind = "triangle" -> TriangleEvaluate(f, x, y)
      [] f.kind = "gaussian" -> GaussianEvaluate(f, x, y)
      [] f.kind = "mitchell" -> MitchellEvaluate(f, x, y)
      [] f.kind = "lanczos" -> LanczosEvaluate(f, x, y)

---------------------------------------------------------------------------
(* compute_normalization_factor: the pieces of its loop.                   *)

(* radical_inverse in the given base: the digits of i mirrored about the   *)
(* radix point.                                                            *)
(* The digits of i taken from the least significant one: num / den is the *)
(* mirror image of the digits consumed so far.                             *)
RECURSIVE radical_inverse_digits(_, _, _, _)
radical_inverse_digits(base, i, num, den) ==
    IF i = 0 THEN Rat(num, den)
    ELSE radical_inverse_digits(base, i \div base, num * base + (i % base), den * base)

radical_inverse(base, i) == radical_inverse_digits(base, i, 0, 1)

(* hammersley_sequence<T, 2>(Bases, i, count) with Bases = { 2 }. *)
hammersley_sequence(base, i, count) ==
    [x |-> Div(K(i), K(count)), y |-> radical_inverse(base, i)]

Base == 2

(* SamplePoint without the shift by -1: the unit square is mapped onto    *)
(* [0, 2*xradius) x [0, 2*yradius).                                        *)
SamplePointUncentred(xradius, yradius, s) ==
    [x |-> Mul(xradius, Mul(Two, s.x)),
     y |-> Mul(yradius, Mul(Two, s.y))]

(* The point p the loop evaluates the filter at, from the sample s. *)
SamplePoint(xradius, yradius, s) ==
    [x |-> Mul(xradius, Sub(Mul(Two, s.x), One)),
     y |-> Mul(yradius, Sub(Mul(Two, s.y), One))]

(* ScaleByArea with the area of one quadrant of the support. *)
ScaleByQuadrant(result, xradius, yradius) == Mul(result, Mul(xradius, yradius))

(* result *= 4 * xradius * yradius. *)
ScaleByArea(result, xradius, yradius) == Mul(result, Mul(Mul(Four, xradius), yradius))

(* DivideByCount with a guard that skips the division when the count is 0. *)
DivideByCountGuarded(result, sample_count) ==
    IF sample_count = 0 THEN result ELSE Div(result, K(sample_count))

(* result /= static_cast<ValueType>(sample_count). *)
DivideByCount(result, sample_count) == Div(result, K(sample_count))

---------------------------------------------------------------------------
(* The inputs the model draws from.                                        *)

Radii == { Rat(k, 2) : k \in 1..MaxRadiusNum }
Alphas == { K(1), K(2) }
(* (b, c): Mitchell-Netravali, Catmull-Rom, cubic B-spline, and a pair off  *)
(* the line b + 2c = 1 the first three lie on.                             *)
MitchellBC ==
    { <<Rat(1, 3), Rat(1, 3)>>, <<Zero, Rat(1, 2)>>, <<One, Zero>>,
      <<Rat(1, 2), Rat(1, 2)>> }
Taus == { K(1), K(2), Rat(1, 2) }

CtorArgs ==
    { [kind |-> k, xradius |-> xr, yradius |-> yr] :
        k \in {"box", "triangle"}, xr \in Radii, yr \in Radii }
    \cup { [kind |-> "gaussian", xradius |-> xr, yradius |-> yr, alpha |-> a] :
        xr \in Radii, yr \in Radii, a \in Alphas }
    \cup { [kind |-> "mitchell", xradius |-> xr, yradius |-> yr, b |-> bc[1], c |-> bc[2]] :
        xr \in Radii, yr \in Radii, bc \in MitchellBC }
    \cup { [kind |-> "lanczos", xradius |-> xr, yradius |-> yr, tau |-> t] :
        xr \in Radii, yr \in Radii, t \in Taus }

(* The constructor call for the given arguments. *)
Construct(a) ==
    CASE a.kind = "box" -> BoxFilter2(a.xradius, a.yradius)
      [] a.kind = "triangle" -> TriangleFilter2(a.xradius, a.yradius)
      [] a.kind = "gaussian" -> GaussianFilter2(a.xradius, a.yradius, a.alpha)
      [] a.kind = "mitchell" -> MitchellFilter2(a.xradius, a.yradius, a.b, a.c)
      [] a.kind = "lanczos" -> LanczosFilter2(a.xradius, a.yradius, a.tau)

(* Coordinates inside the support: fractions i/GridDen of the radius. *)
Fractions == { Rat(i, GridDen) : i \in (-GridDen)..GridDen }

Readers == {"r1", "r2"}

Idle ==
    [pc |-> "idle", op |-> "none", x |-> Zero, y |-> Zero, sample_count |-> 0,
     xradius |-> Zero, yradius |-> Zero, i |-> 0, result |-> Zero,
     trace |-> <<>>, ret |-> Zero]

---------------------------------------------------------------------------
(* The state machine: one immutable filter instance and its readers.       *)

Init ==
    /\ ctor \in CtorArgs
    /\ filter = Construct(ctor)
    /\ readers = [r \in Readers |-> Idle]

(* An evaluate that stores the normalised x coordinate's factor back into *)
(* the instance.                                                           *)
EvaluateWriting(r, x, y) ==
    /\ readers[r].pc = "idle"
    /\ readers' = [readers EXCEPT ![r] =
          [Idle EXCEPT !.pc = "done", !.op = "evaluate", !.x = x, !.y = y,
                       !.ret = evaluate(filter, x, y)]]
    /\ filter' = [filter EXCEPT !.base.m_rcp_xradius = Mul(x, @)]
    /\ UNCHANGED ctor

(* r calls filter.evaluate(x, y). *)
Evaluate(r, x, y) ==
    /\ readers[r].pc = "idle"
    /\ readers' = [readers EXCEPT ![r] =
          [Idle EXCEPT !.pc = "done", !.op = "evaluate", !.x = x, !.y = y,
                       !.ret = evaluate(filter, x, y)]]
    /\ UNCHANGED <<ctor, filter>>

(* r calls filter.get_xradius(). *)
GetXRadius(r) ==
    /\ readers[r].pc = "idle"
    /\ readers' = [readers EXCEPT ![r] =
          [Idle EXCEPT !.pc = "done", !.op = "get_xradius",
                       !.ret = get_xradius(filter.base)]]
    /\ UNCHANGED <<ctor, filter>>

(* r calls filter.get_yradius(). *)
GetYRadius(r) ==
    /\ readers[r].pc = "idle"
    /\ readers' = [readers EXCEPT ![r] =
          [Idle EXCEPT !.pc = "done", !.op = "get_yradius",
                       !.ret = get_yradius(filter.base)]]
    /\ UNCHANGED <<ctor, filter>>

(* r enters compute_normalization_factor(filter, n): the locals before the loop. *)
NormalizeCall(r, n) ==
    /\ readers[r].pc = "idle"
    /\ readers' = [readers EXCEPT ![r] =
          [Idle EXCEPT !.pc = "loop", !.op = "normalize", !.sample_count = n,
                       !.xradius = get_xradius(filter.base),
                       !.yradius = get_yradius(filter.base),
                       !.result = Zero, !.i = 0]]
    /\ UNCHANGED <<ctor, filter>>

(* One iteration of the loop: i < sample_count. *)
NormalizeLoop(r) ==
    LET me == readers[r]
        s == hammersley_sequence(Base, me.i, me.sample_count)
        p == SamplePoint(me.xradius, me.yradius, s)
    IN  /\ me.pc = "loop"
        /\ me.i < me.sample_count
        /\ readers' = [readers EXCEPT ![r] =
              [me EXCEPT !.result = Add(me.result, evaluate(filter, p.x, p.y)),
                         !.trace = Append(me.trace, p),
                         !.i = me.i + 1]]
        /\ UNCHANGED <<ctor, filter>>

(* The loop ends: scale, divide, return. *)
NormalizeReturn(r) ==
    LET me == readers[r]
        scaled == ScaleByArea(me.result, me.xradius, me.yradius)
    IN  /\ me.pc = "loop"
        /\ ~(me.i < me.sample_count)
        /\ readers' = [readers EXCEPT ![r] =
              [me EXCEPT !.pc = "done", !.result = scaled,
                         !.ret = DivideByCount(scaled, me.sample_count)]]
        /\ UNCHANGED <<ctor, filter>>

(* The caller drops the returned value and is ready for its next call. *)
Forget(r) ==
    /\ readers[r].pc = "done"
    /\ readers' = [readers EXCEPT ![r] = Idle]
    /\ UNCHANGED <<ctor, filter>>

SampleCounts == 0..MaxSampleCount

ReaderStep(r) ==
    \/ \E fx \in Fractions, fy \in Fractions :
          Evaluate(r, Mul(fx, ctor.xradius), Mul(fy, ctor.yradius))
    \/ GetXRadius(r)
    \/ GetYRadius(r)
    \/ \E n \in SampleCounts : NormalizeCall(r, n)
    \/ NormalizeLoop(r)
    \/ NormalizeReturn(r)
    \/ Forget(r)

(* A single caller. *)
Next == ReaderStep("r1")

Spec == Init /\ [][Next]_vars

(* Several callers sharing one instance. *)
ConcurrentCtorArgs == { a \in CtorArgs : a.xradius = Rat(1, 2) /\ a.yradius = One }

InitConcurrent ==
    /\ ctor \in ConcurrentCtorArgs
    /\ filter = Construct(ctor)
    /\ readers = [r \in Readers |-> Idle]

NextConcurrent == \E r \in Readers : ReaderStep(r)

SpecConcurrent == InitConcurrent /\ [][NextConcurrent]_vars

(* A box filter normalised with the sample counts 1, 16 and the default. *)
BoxSampleCounts == SampleCounts \cup {1, 16, DefaultSampleCount}

InitBox ==
    /\ ctor \in { a \in CtorArgs : a.kind = "box" }
    /\ filter = Construct(ctor)
    /\ readers = [r \in Readers |-> Idle]

NextBox ==
    \/ \E n \in BoxSampleCounts : NormalizeCall("r1", n)
    \/ NormalizeLoop("r1")
    \/ NormalizeReturn("r1")
    \/ Forget("r1")

SpecBox == InitBox /\ [][NextBox]_vars

---------------------------------------------------------------------------
(* Properties.                                                             *)

(* r has returned from a call of op and still holds the returned value. *)
Done(r, op) == readers[r].pc = "done" /\ readers[r].op = op

InSupport(p) ==
    /\ RLeq(RNeg(ctor.xradius), p.x) /\ RLeq(p.x, ctor.xradius)
    /\ RLeq(RNeg(ctor.yradius), p.y) /\ RLeq(p.y, ctor.yradius)

(* The per-axis Lanczos value for the normalised coordinate n and tau. *)
LanczosAxisOf(n, tau) ==
    IF n = Zero THEN One
    ELSE Mul(sinc(Div(Mul(Pi, n), tau)), sinc(Mul(Pi, n)))

(* C1: LanczosFilter2 stores 1/tau at construction, so that evaluate      *)
(* applies the first sinc to pi*n/tau: the per-axis value is 1 for n = 0   *)
(* and sinc(pi*n/tau) * sinc(pi*n) otherwise, and the 2D value is the      *)
(* product of the two per-axis values.                                     *)
C1_ReciprocalTauStored ==
    ctor.kind = "lanczos" =>
        /\ filter.m_rcp_tau = Div(One, ctor.tau)
        /\ \A r \in Readers :
              Done(r, "evaluate") =>
                  readers[r].ret =
                      Mul(LanczosAxisOf(Div(readers[r].x, ctor.xradius), ctor.tau),
                          LanczosAxisOf(Div(readers[r].y, ctor.yradius), ctor.tau))

(* The i-th point of the estimator: the sequence point for (base 2, i, n) *)
(* mapped affinely onto the support.                                       *)
PointOf(i, n) ==
    LET s == hammersley_sequence(2, i, n)
    IN  [x |-> Mul(ctor.xradius, Sub(Mul(Two, s.x), One)),
         y |-> Mul(ctor.yradius, Sub(Mul(Two, s.y), One))]

(* evaluate(p_0) + ... + evaluate(p_{k-1}), accumulated in index order. *)
RECURSIVE SumOfEvaluations(_, _)
SumOfEvaluations(k, n) ==
    IF k = 0 THEN Zero
    ELSE LET p == PointOf(k - 1, n)
         IN  Add(SumOfEvaluations(k - 1, n), evaluate(filter, p.x, p.y))

C2_LoopInvariant ==
    \A r \in Readers :
        LET me == readers[r]
        IN  me.op = "normalize" =>
              /\ me.i <= me.sample_count
              /\ Len(me.trace) = me.i
              /\ \A k \in 1..Len(me.trace) : me.trace[k] = PointOf(k - 1, me.sample_count)
              /\ (me.pc = "done" /\ me.sample_count >= 1) =>
                    /\ me.i = me.sample_count
                    /\ me.ret =
                          Div(Mul(SumOfEvaluations(me.sample_count, me.sample_count),
                                  Mul(Mul(Four, ctor.xradius), ctor.yradius)),
                              K(me.sample_count))

(* Every step taken inside the loop either runs one iteration, which adds *)
(* one to i < sample_count, or leaves the loop with i = sample_count: the  *)
(* distance sample_count - i to the return shrinks with every iteration.   *)
C2_LoopAdvances ==
    \A r \in Readers :
        (readers[r].pc = "loop" /\ readers'[r] # readers[r]) =>
            \/ /\ readers[r].i < readers[r].sample_count
               /\ readers'[r].pc = "loop"
               /\ readers'[r].i = readers[r].i + 1
               /\ Len(readers'[r].trace) = Len(readers[r].trace) + 1
            \/ /\ readers[r].i = readers[r].sample_count
               /\ readers'[r].pc = "done"
               /\ readers'[r].trace = readers[r].trace

(* C2: for every kernel and every sample_count N >= 1,                     *)
(* compute_normalization_factor terminates after exactly N iterations,     *)
(* calls evaluate once per index i = 0..N-1 in increasing order at         *)
(* p_i = (xradius*(2*s_i.x - 1), yradius*(2*s_i.y - 1)), and returns       *)
(* (sum of evaluate(p_i)) * 4*xradius*yradius / N.                         *)
C2_NormalizationLoop ==
    /\ []C2_LoopInvariant
    /\ [][C2_LoopAdvances]_vars

C2_Witness ==
    /\ ctor.kind = "mitchell"
    /\ Done("r1", "normalize")
    /\ readers["r1"].sample_count = MaxSampleCount
    /\ Len(readers["r1"].trace) = MaxSampleCount
    /\ readers["r1"].ret # Zero

C4_ReadersAgree ==
    /\ filter = Construct(ctor)
    /\ \A r \in Readers :
          /\ Done(r, "get_xradius") => readers[r].ret = ctor.xradius
          /\ Done(r, "get_yradius") => readers[r].ret = ctor.yradius
          /\ Done(r, "evaluate") =>
                readers[r].ret = evaluate(Construct(ctor), readers[r].x, readers[r].y)

(* C4: a kernel instance is immutable after construction: under any        *)
(* interleaving of evaluate and compute_normalization_factor calls by      *)
(* several readers, no step changes a stored field, get_xradius and        *)
(* get_yradius return the constructed radii, and evaluate(x, y) returns    *)
(* the value it returns on the freshly constructed instance.               *)
C4_Immutable ==
    /\ []C4_ReadersAgree
    /\ [][filter' = filter /\ ctor' = ctor]_vars

C4_Witness ==
    /\ readers["r1"].pc = "loop" /\ readers["r1"].i >= 1
    /\ Done("r2", "evaluate")
    /\ readers["r2"].x = ctor.xradius
    /\ ctor.kind = "lanczos"

C7_LanczosNoZeroDivision ==
    \A r \in Readers :
        (ctor.kind = "lanczos" /\ Done(r, "evaluate")) =>
            /\ readers[r].ret # NaN
            /\ readers[r].ret # Inf
            /\ (readers[r].x = Zero /\ readers[r].y = Zero) => readers[r].ret = One
            /\ (readers[r].x = Zero /\ readers[r].y # Zero) =>
                  (~IsRat(readers[r].ret) /\ readers[r].ret.tag = "mul"
                       /\ readers[r].ret.l = One)

C7_Witness ==
    /\ ctor.kind = "lanczos" /\ ctor.tau = Two
    /\ Done("r1", "evaluate")
    /\ readers["r1"].x = Zero /\ readers["r1"].y = Zero
    /\ readers["r1"].ret = One

(* The sequence points i/GridDen x j/GridDen of [0,1)^2. *)
UnitSquare ==
    { [x |-> Rat(i, GridDen), y |-> Rat(j, GridDen)] : i, j \in 0..(GridDen - 1) }

(* C8: compute_normalization_factor only queries the kernel inside its     *)
(* support: for positive radii and every sequence point s in [0,1)^2 the   *)
(* point p the loop evaluates at satisfies -xradius <= p.x <= xradius and  *)
(* -yradius <= p.y <= yradius.                                             *)
C8_SamplesInSupport ==
    /\ \A s \in UnitSquare : InSupport(SamplePoint(ctor.xradius, ctor.yradius, s))
    /\ \A r \in Readers :
          readers[r].op = "normalize" =>
              \A k \in 1..Len(readers[r].trace) : InSupport(readers[r].trace[k])

C8_Witness ==
    /\ Done("r1", "normalize")
    /\ readers["r1"].sample_count = MaxSampleCount
    /\ \E k \in 1..Len(readers["r1"].trace) :
          readers["r1"].trace[k].x = RNeg(ctor.xradius)
    /\ \E k \in 1..Len(readers["r1"].trace) :
          RLess(Zero, readers["r1"].trace[k].x) /\ RLess(Zero, readers["r1"].trace[k].y)

C10_ZeroSampleCount ==
    \A r \in Readers :
        LET me == readers[r]
        IN  /\ (me.op = "normalize" /\ me.sample_count = 0) =>
                  /\ me.i = 0
                  /\ me.trace = <<>>
                  /\ me.result = Zero
                  /\ me.pc = "done" => me.ret = NaN
            /\ (Done(r, "normalize") /\ me.sample_count >= 1) =>
                  /\ K(me.sample_count) # Zero
                  /\ me.ret # NaN
                  /\ me.ret # Inf

C10_Witness ==
    /\ Done("r1", "normalize")
    /\ readers["r1"].sample_count = 0
    /\ readers["r1"].ret = NaN

=============================================================================
